---- MODULE Spec2Model ----
(***************************************************************************)
(* Pacman ghost decision engine: MetaRulesController (role-swap and        *)
(* converge meta-rules, src/meta_rules_controller.py) and GhostAI          *)
(* (per-ghost move choice, src/ghost_ai.py).                               *)
(*                                                                         *)
(* Positions are pixel coordinates <<x, y>>.  Distances the code divides   *)
(* by float(tile) and compares with a whole number of tiles are compared   *)
(* here in pixels against tiles * tile: for these integer magnitudes the   *)
(* float division and product are exact, so the comparisons agree.         *)
(***************************************************************************)
EXTENDS Integers, Sequences, FiniteSets, TLC

VARIABLES
    \* ---- MetaRulesController instance ----
    cfg,                \* RoleSwapConfig and ConvergeConfig fields, fixed at construction
    role_map,           \* self.role_map: ghost id -> role
    escape_ticks,       \* self._escape_ticks
    role_swap_cooldown, \* self._role_swap_cooldown
    converge_ticks,     \* self._converge_ticks
    converge_cooldown,  \* self._converge_cooldown
    \* ---- one update call ----
    pc,                 \* "idle": between calls; "update": a call's arguments are bound;
                        \* "returned": the caller holds the returned mapping
    args,               \* the (pacman, ghosts) arguments of the call in progress
    pre,                \* the counters and role_map as the last update call found them
    ret,                \* the value the last update call returned
    printed,            \* what the last update call wrote to stdout
    since_swap,         \* update calls completed since the last one that rotated the
                        \* roles, counted up to swap_cooldown_ticks (no rotation yet:
                        \* swap_cooldown_ticks)
    \* ---- GhostAI.set_ghost_direction on one ghost sprite ----
    ghost_change,       \* <<ghost.change_x, ghost.change_y>>
    ai_pc,              \* "idle": between calls; "decide": called; "done": about to return
    call,               \* the arguments of the call in progress
    target,             \* the local `target` of the call
    penalized,          \* the moves the call gave rev_pen = 1000.0
    last_move           \* the last nonzero displacement the game loop applied to the ghost

meta_vars == <<cfg, role_map, escape_ticks, role_swap_cooldown, converge_ticks,
               converge_cooldown, pc, args, pre, ret, printed, since_swap>>

ai_vars == <<ghost_change, ai_pc, call, target, penalized, last_move>>

vars == <<meta_vars, ai_vars>>

----------------------------------------------------------------------------
(* Bounds of the model *)

\* Configured tick lengths (escape threshold, cooldowns, hold) range over 0..MaxTicks;
\* the shipped defaults (60, 30, 30, 30) behave like MaxTicks scaled up.
MaxTicks == 2

\* rotation_step ranges over -1..MaxStep (more than one full turn of the four ghosts).
MaxStep == 5

\* required_sectors ranges over 0..MaxSectors (one more than the four quadrants).
MaxSectors == 5

----------------------------------------------------------------------------
(* Program constants *)

Tile == 30
RadiusTiles == 6
SafeDistanceTiles == 6
DefaultRequiredSectors == 3
DefaultRotationStep == 1

\* float("inf"): larger than every distance of the board
Inf == 1000000

\* GhostAI.__init__ defaults
Step == 15
BoardSize == 606

\* ghosts.get(gid) is None
Absent == <<>>

ghost_ids == <<"blinky", "pinky", "inky", "clyde">>

GhostIds == {ghost_ids[i] : i \in 1..Len(ghost_ids)}

ConvergeMap == [gid \in GhostIds |-> "converge"]

\* No update call has returned yet.
NoReturn == [gid \in GhostIds |-> "none"]

----------------------------------------------------------------------------
(* Arguments of update: the player's centre and the tracked ghosts' centres *)

PacPoints == {<<300, 270>>}

\* 180 px = 6 tiles: both the converge radius and the safe distance
Far == <<495, 270>>

\* Where each ghost may be when update is called, around the player at (300, 270):
\* a point of every quadrant lying on the quadrant's boundary (dx = 0 or dy = 0, the
\* player's own position included), two ghosts able to share a quadrant, a point
\* exactly on the 180 px radius, a point 15 px beyond it, or no entry in the map.
GhostPoints(gid) ==
    CASE gid = "blinky" -> {Absent, Far, <<300, 255>>, <<480, 270>>}
      [] gid = "pinky"  -> {Absent, Far, <<300, 255>>, <<285, 255>>}
      [] gid = "inky"   -> {Absent, Far, <<285, 270>>}
      [] gid = "clyde"  -> {Absent, Far, <<300, 270>>}

GhostMaps ==
    {[gid \in GhostIds |-> q[CHOOSE i \in 1..Len(ghost_ids) : ghost_ids[i] = gid]] :
        q \in GhostPoints(ghost_ids[1]) \X GhostPoints(ghost_ids[2])
               \X GhostPoints(ghost_ids[3]) \X GhostPoints(ghost_ids[4])}

Abs(x) == IF x < 0 THEN -x ELSE x

Manhattan(a, b) == Abs(a[1] - b[1]) + Abs(a[2] - b[2])

----------------------------------------------------------------------------
(* MetaRulesController *)

\* Mutant: the decrement without its "> 0" guard
Decrement_Unguarded(c) == c - 1

\* "if counter > 0: counter -= 1"
Decrement(c) == IF c > 0 THEN c - 1 ELSE c

\* abs(dx) + abs(dy) > radius_px: the ghost is skipped
OutOfRadius(dx, dy) == Abs(dx) + Abs(dy) > RadiusTiles * Tile

\* The quadrant chain NE, NW, SW, SE
Quadrant(dx, dy) ==
    IF dx >= 0 /\ dy < 0 THEN "NE"
    ELSE IF dx < 0 /\ dy < 0 THEN "NW"
    ELSE IF dx < 0 /\ dy >= 0 THEN "SW"
    ELSE "SE"

\* The set `sectors` built by the loop over ghost_ids
Sectors(pac, ghosts) ==
    {Quadrant(ghosts[gid][1] - pac[1], ghosts[gid][2] - pac[2]) :
        gid \in {g \in GhostIds :
                    /\ ghosts[g] # Absent
                    /\ ~OutOfRadius(ghosts[g][1] - pac[1], ghosts[g][2] - pac[2])}}

\* Mutant: ">" for ">="
SurroundDetected_Strict(n, required) == n > required

\* len(sectors) >= required_sectors
SurroundDetected(n, required) == n >= required

\* "if self._converge_cooldown != 0: return None"
DetectionSuppressed(cooldown) == cooldown # 0

\* Mutant: an identity without an entry counts as a ghost on the player
RECURSIVE MinOver_AbsentOnPlayer(_, _, _)
MinOver_AbsentOnPlayer(pac, ghosts, i) ==
    IF i > Len(ghost_ids) THEN Inf
    ELSE LET rest == MinOver_AbsentOnPlayer(pac, ghosts, i + 1)
             g == ghosts[ghost_ids[i]]
         IN IF g = Absent THEN 0
            ELSE IF Manhattan(g, pac) < rest THEN Manhattan(g, pac) ELSE rest

\* The loop of _min_dist_to_pacman_tiles from the i-th ghost id on
RECURSIVE MinOver(_, _, _)
MinOver(pac, ghosts, i) ==
    IF i > Len(ghost_ids) THEN Inf
    ELSE LET rest == MinOver(pac, ghosts, i + 1)
             g == ghosts[ghost_ids[i]]
         IN IF g = Absent THEN rest
            ELSE IF Manhattan(g, pac) < rest THEN Manhattan(g, pac) ELSE rest

\* _min_dist_to_pacman_tiles, in pixels (Inf when no ghost is tracked)
MinDistToPacman(pac, ghosts) == MinOver(pac, ghosts, 1)

\* Mutant: ">" for ">="
IsSafe_Strict(min_dist) == min_dist > SafeDistanceTiles * Tile

\* min_dist >= safe_distance_tiles
IsSafe(min_dist) == min_dist >= SafeDistanceTiles * Tile

\* Mutant: current_roles[-step:] + current_roles[step:]
SwapRoles_BadSlice(rm, rotation_step) ==
    LET n == Len(ghost_ids)
        step == rotation_step % n
        current_roles == [i \in 1..n |-> rm[ghost_ids[i]]]
        rotated == SubSeq(current_roles, n - step + 1, n) \o SubSeq(current_roles, step + 1, n)
    IN IF step = 0 THEN rm
       ELSE [gid \in GhostIds |->
                rotated[CHOOSE i \in 1..n : ghost_ids[i] = gid]]

\* Mutant: rotation the other way, current_roles[step:] + current_roles[:step]
SwapRoles_Leftward(rm, rotation_step) ==
    LET n == Len(ghost_ids)
        step == rotation_step % n
        current_roles == [i \in 1..n |-> rm[ghost_ids[i]]]
        rotated == SubSeq(current_roles, step + 1, n) \o SubSeq(current_roles, 1, step)
    IN IF step = 0 THEN rm
       ELSE [gid \in GhostIds |->
                rotated[CHOOSE i \in 1..n : ghost_ids[i] = gid]]

\* _swap_roles: current_roles[-step:] + current_roles[:-step]
SwapRoles(rm, rotation_step) ==
    LET n == Len(ghost_ids)
        step == rotation_step % n
        current_roles == [i \in 1..n |-> rm[ghost_ids[i]]]
        rotated == SubSeq(current_roles, n - step + 1, n) \o SubSeq(current_roles, 1, n - step)
    IN IF step = 0 THEN rm
       ELSE [gid \in GhostIds |->
                rotated[CHOOSE i \in 1..n : ghost_ids[i] = gid]]

\* Mutant: the rotation does not wait for the cooldown
SwapDue_IgnoresCooldown(escape, threshold, cooldown) == escape >= threshold

\* Mutant: ">" for ">="
SwapDue_Strict(escape, threshold, cooldown) == escape > threshold /\ cooldown = 0

\* escape_ticks >= threshold and cooldown == 0
SwapDue(escape, threshold, cooldown) == escape >= threshold /\ cooldown = 0

\* self._converge_cooldown after the converge rule's hold branch
CooldownAfterHold(ticks_left, cooldown) ==
    IF ticks_left = 0 THEN cfg.cooldown_ticks ELSE cooldown

\* Mutant: "> 1" for "> 0"
HoldActive_OffByOne(ticks) == ticks > 1

\* "if self._converge_ticks > 0"
HoldActive(ticks) == ticks > 0

\* _update_converge_rule: the counters it leaves and what it returns
\* (override = TRUE: the all-"converge" mapping; FALSE: None)
UpdateConvergeRule(pac, ghosts) ==
    LET cd == Decrement(converge_cooldown)
    IN IF HoldActive(converge_ticks)
       THEN [ticks    |-> converge_ticks - 1,
             cooldown |-> CooldownAfterHold(converge_ticks - 1, cd),
             escape   |-> 0,
             override |-> TRUE,
             out      |-> {"Converge is active"}]
       ELSE IF DetectionSuppressed(cd)
       THEN [ticks |-> converge_ticks, cooldown |-> cd, escape |-> escape_ticks,
             override |-> FALSE, out |-> {}]
       ELSE IF SurroundDetected(Cardinality(Sectors(pac, ghosts)), cfg.required_sectors)
       THEN [ticks |-> cfg.hold_ticks, cooldown |-> cd, escape |-> 0,
             override |-> TRUE, out |-> {}]
       ELSE [ticks |-> converge_ticks, cooldown |-> cd, escape |-> escape_ticks,
             override |-> FALSE, out |-> {}]

\* _update_role_swap_rule, entered with escape counter `escape`
UpdateRoleSwapRule(escape, pac, ghosts) ==
    LET e1 == IF IsSafe(MinDistToPacman(pac, ghosts)) THEN escape + 1 ELSE 0
        c1 == Decrement(role_swap_cooldown)
    IN IF SwapDue(e1, cfg.escape_ticks_threshold, c1)
       THEN [roles |-> SwapRoles(role_map, cfg.rotation_step), escape |-> 0,
             cooldown |-> cfg.swap_cooldown_ticks, out |-> {"Roles have been swapped"}]
       ELSE [roles |-> role_map, escape |-> e1, cooldown |-> c1, out |-> {}]


----------------------------------------------------------------------------
(* GhostAI *)

\* Scores are floats in the code.  Here a score is an exact fraction num/den of
\* 1/40 units: the weights are multiples of 1/20 and a jitter draw is 0 or 1/2.

\* self.weights, in twentieths; Weights() for any other name
Weights(name) ==
    CASE name = "blinky" -> [w_dist |-> 20, w_reverse |-> 50, w_separation |-> 4, w_jitter |-> 0]
      [] name = "pinky"  -> [w_dist |-> 20, w_reverse |-> 40, w_separation |-> 4, w_jitter |-> 0]
      [] name = "inky"   -> [w_dist |-> 20, w_reverse |-> 40, w_separation |-> 14, w_jitter |-> 7]
      [] name = "clyde"  -> [w_dist |-> 20, w_reverse |-> 40, w_separation |-> 6, w_jitter |-> 1]
      [] OTHER           -> [w_dist |-> 20, w_reverse |-> 60, w_separation |-> 8, w_jitter |-> 2]

\* self.scatter_targets
ScatterTargets ==
    [blinky |-> <<BoardSize - 30, 30>>,
     pinky  |-> <<30, 30>>,
     inky   |-> <<BoardSize - 30, BoardSize - 30>>,
     clyde  |-> <<30, BoardSize - 30>>]

\* _normalize_dir
NormalizeDir(dx, dy) ==
    <<IF dx = 0 THEN 0 ELSE IF dx > 0 THEN 1 ELSE -1,
      IF dy = 0 THEN 0 ELSE IF dy > 0 THEN 1 ELSE -1>>

\* The candidate list of _possible_moves: left, right, up, down
Candidates == <<<<-Step, 0>>, <<Step, 0>>, <<0, -Step>>, <<0, Step>>>>

CandidateSet == {Candidates[i] : i \in 1..Len(Candidates)}

\* Mutant: the collision test always passes
InFree_Always(m, free) == TRUE

\* _can_move(ghost, dx, dy, walls, gate)
InFree(m, free) == m \in free

\* _possible_moves: the candidates _can_move accepts, in order.  _can_move asks
\* pygame for collisions with walls and gate; `free` is the set it answers True for.
PossibleMoves(free) ==
    LET Keep(m) == InFree(m, free)
    IN SelectSeq(Candidates, Keep)

\* Mutant: the herder also chases at exactly 6.0 tiles
HerderChases_NonStrict(dist) == dist >= 6 * Tile

\* dist_tiles > 6.0, in pixels
HerderChases(dist) == dist > 6 * Tile

\* Mutant: inky reflects blinky's position through itself instead of the ahead-point
\* through blinky
ComputeTarget_ReflectReference(name, ghost_center, pac, pac_change, blinky) ==
    LET pac_dir == NormalizeDir(pac_change[1], pac_change[2])
    IN IF name = "blinky" THEN pac
       ELSE IF name = "pinky"
       THEN <<pac[1] + pac_dir[1] * Tile * 4, pac[2] + pac_dir[2] * Tile * 4>>
       ELSE IF name = "inky"
       THEN LET ahead == <<pac[1] + pac_dir[1] * Tile * 2, pac[2] + pac_dir[2] * Tile * 2>>
            IN IF blinky = Absent THEN ahead
               ELSE <<2 * blinky[1] - ahead[1], 2 * blinky[2] - ahead[2]>>
       ELSE IF name = "clyde"
       THEN IF HerderChases(Manhattan(ghost_center, pac)) THEN pac
            ELSE ScatterTargets["clyde"]
       ELSE pac

\* _compute_target
ComputeTarget(name, ghost_center, pac, pac_change, blinky) ==
    LET pac_dir == NormalizeDir(pac_change[1], pac_change[2])
    IN IF name = "blinky" THEN pac
       ELSE IF name = "pinky"
       THEN <<pac[1] + pac_dir[1] * Tile * 4, pac[2] + pac_dir[2] * Tile * 4>>
       ELSE IF name = "inky"
       THEN LET ahead == <<pac[1] + pac_dir[1] * Tile * 2, pac[2] + pac_dir[2] * Tile * 2>>
            IN IF blinky = Absent THEN ahead
               ELSE <<2 * ahead[1] - blinky[1], 2 * ahead[2] - blinky[2]>>
       ELSE IF name = "clyde"
       THEN IF HerderChases(Manhattan(ghost_center, pac)) THEN pac
            ELSE ScatterTargets["clyde"]
       ELSE pac

\* reverse: the opposite of the normalized current direction, or None
Reverse(change) ==
    LET cur_dir == NormalizeDir(change[1], change[2])
    IN IF cur_dir # <<0, 0>> THEN <<-cur_dir[1] * Step, -cur_dir[2] * Step>> ELSE Absent

\* Mutant: the penalty without "len(moves) > 1"
RevPen_Unconditional(move, reverse, n_moves) ==
    IF reverse # Absent /\ move = reverse THEN 1000 ELSE 0

\* Mutant: the penalty on the move that continues forward
RevPen_Forward(move, reverse, n_moves) ==
    IF reverse # Absent /\ move = <<-reverse[1], -reverse[2]>> /\ n_moves > 1 THEN 1000 ELSE 0

\* rev_pen
RevPen(move, reverse, n_moves) ==
    IF reverse # Absent /\ move = reverse /\ n_moves > 1 THEN 1000 ELSE 0

\* sep_pen: the sum of 1.0 / (dd + 1.0) over other_ghosts, as a fraction
RECURSIVE SepPen(_, _, _)
SepPen(next_pos, others, i) ==
    IF i > Len(others) THEN [num |-> 0, den |-> 1]
    ELSE LET rest == SepPen(next_pos, others, i + 1)
             dd == Manhattan(next_pos, others[i])
         IN [num |-> rest.num * (dd + 1) + rest.den, den |-> rest.den * (dd + 1)]

\* score, in 1/40 units, of a candidate with distance d, penalty rev_pen,
\* separation sep and jitter draw j/2
Score(w, d, rev_pen, sep, j) ==
    [num |-> (2 * w.w_dist * d + 2 * w.w_reverse * rev_pen + w.w_jitter * 50 * j) * sep.den
                + 2 * w.w_separation * 1000 * sep.num,
     den |-> sep.den]

\* best_score = float("inf"): the fraction 1/0, above every score
InfScore == [num |-> 1, den |-> 0]

\* Mutant: a later candidate replaces the best one on an equal score
ScoreLess_OrEqual(a, b) == a.num * b.den <= b.num * a.den

\* score < best_score
ScoreLess(a, b) == a.num * b.den < b.num * a.den

\* The loop of _choose_best_move from the i-th move on
RECURSIVE BestFrom(_, _, _, _, _, _, _, _, _)
BestFrom(i, best, best_score, center, change, moves, tgt, w, c) ==
    IF i > Len(moves) THEN best
    ELSE LET next_pos == <<center[1] + moves[i][1], center[2] + moves[i][2]>>
             score == Score(w, Manhattan(next_pos, tgt),
                            RevPen(moves[i], Reverse(change), Len(moves)),
                            SepPen(next_pos, c.others, 1), c.jitter[i])
         IN IF ScoreLess(score, best_score)
            THEN BestFrom(i + 1, moves[i], score, center, change, moves, tgt, w, c)
            ELSE BestFrom(i + 1, best, best_score, center, change, moves, tgt, w, c)

\* _choose_best_move
ChooseBestMove(center, change, moves, tgt, w, c) ==
    LET best == BestFrom(1, Absent, InfScore,
                         center, change, moves, tgt, w, c)
    IN IF best # Absent THEN best ELSE moves[1]

\* set_ghost_direction: the new <<change_x, change_y>>
SetGhostDirectionResult(c, change) ==
    LET possible == PossibleMoves(c.free)
    IN IF possible = <<>> THEN <<0, 0>>
       ELSE ChooseBestMove(c.center, change, possible,
                           ComputeTarget(c.name, c.center, c.pacman, c.pac_change, c.blinky),
                           Weights(c.name), c)

(* Arguments of set_ghost_direction *)

\* ghost_name.lower(): a ghost's role, or the override role "converge"
Names == {"blinky", "pinky", "inky", "clyde", "converge"}

GhostCenters == {<<300, 300>>}

\* The player on the ghost, 180 px (6.0 tiles) and 195 px away from it, and at the
\* spot of the reflection example
PacCenters == {<<300, 300>>, <<300, 120>>, <<300, 105>>, <<100, 100>>}

\* pacman.change_x, pacman.change_y
PacChanges == {<<0, 0>>, <<30, 0>>, <<-30, 30>>}

\* blinky: None or the reference ghost's centre
BlinkyRefs == {Absent, <<100, 100>>}

\* other_ghosts without the ghost itself: none, or one ghost a step to the right
OtherLists == {<<>>, <<<<315, 300>>>>}

\* self.rng.random(), one draw per candidate scored: 0 or 1/2 (in halves)
JitterDraws == [1..4 -> {0, 1}]

NoJitter == {[i \in 1..4 |-> 0]}

NoCall == [name |-> "", identity |-> "", center |-> <<>>, change |-> <<>>, pacman |-> <<>>,
           pac_change |-> <<>>, blinky |-> <<>>, free |-> {}, others |-> <<>>,
           jitter |-> <<>>]

\* The identities whose sprite is steered with role `name`.  The role map can give
\* any identity any role; set_ghost_direction is never told the identity, so it is
\* varied for the herder role alone, whose target is a scatter corner.
IdentitiesOf(name) ==
    IF name = "clyde" THEN GhostIds
    ELSE IF name \in GhostIds THEN {name}
    ELSE {"blinky"}

\* The calls made with role `name`.  Arguments the call never reads take one value:
\* pacman's direction is read for pinky and inky, blinky for inky, and a jitter
\* draw is multiplied by w_jitter = 0 for blinky and pinky.
CallsOf(name) ==
    [name       : {name},
     identity   : IdentitiesOf(name),
     center     : GhostCenters,
     change     : {ghost_change},
     pacman     : PacCenters,
     pac_change : IF name \in {"pinky", "inky"} THEN PacChanges ELSE {<<0, 0>>},
     blinky     : IF name = "inky" THEN BlinkyRefs ELSE {Absent},
     free       : SUBSET CandidateSet,
     others     : OtherLists,
     jitter     : IF Weights(name).w_jitter = 0 THEN NoJitter ELSE JitterDraws]

----------------------------------------------------------------------------
(* Configurations: the defaults with the tick lengths scaled to MaxTicks, and *)
(* each field varied on its own.                                             *)

BaseConfig ==
    [escape_ticks_threshold |-> MaxTicks,
     swap_cooldown_ticks    |-> MaxTicks,
     rotation_step          |-> DefaultRotationStep,
     required_sectors       |-> DefaultRequiredSectors,
     hold_ticks             |-> MaxTicks,
     cooldown_ticks         |-> MaxTicks]

Configs ==
    {[BaseConfig EXCEPT !.escape_ticks_threshold = t] : t \in 0..MaxTicks}
    \cup {[BaseConfig EXCEPT !.swap_cooldown_ticks = c] : c \in 0..MaxTicks}
    \cup {[BaseConfig EXCEPT !.hold_ticks = h] : h \in 0..MaxTicks}
    \cup {[BaseConfig EXCEPT !.cooldown_ticks = c] : c \in 0..MaxTicks}
    \cup {[BaseConfig EXCEPT !.rotation_step = s] : s \in -1..MaxStep}
    \cup {[BaseConfig EXCEPT !.required_sectors = r] : r \in 0..MaxSectors}

NoArgs == [pacman |-> <<>>, ghosts |-> <<>>]

Counters == [escape |-> escape_ticks, swap_cooldown |-> role_swap_cooldown,
             hold |-> converge_ticks, cooldown |-> converge_cooldown, roles |-> role_map]

\* MetaRulesController.__init__
MetaInit(configs) ==
    /\ cfg \in configs
    /\ role_map = [gid \in GhostIds |-> gid]
    /\ escape_ticks = 0
    /\ role_swap_cooldown = 0
    /\ converge_ticks = 0
    /\ converge_cooldown = 0
    /\ pc = "idle"
    /\ args = NoArgs
    /\ pre = [escape |-> 0, swap_cooldown |-> 0, hold |-> 0, cooldown |-> 0,
              roles |-> [gid \in GhostIds |-> gid]]
    /\ ret = NoReturn
    /\ printed = {}
    /\ since_swap = cfg.swap_cooldown_ticks

\* A ghost sprite that has not been steered yet: getattr(ghost, "change_x", 0)
AIInit ==
    /\ ghost_change = <<0, 0>>
    /\ ai_pc = "idle"
    /\ call = NoCall
    /\ target = <<>>
    /\ penalized = {}
    /\ last_move = Absent

Init == MetaInit(Configs) /\ AIInit

\* The game loop calls update(pacman, ghosts) once per tick.
Call ==
    /\ pc = "idle"
    /\ \E p \in PacPoints, g \in GhostMaps : args' = [pacman |-> p, ghosts |-> g]
    /\ pc' = "update"
    /\ UNCHANGED <<cfg, role_map, escape_ticks, role_swap_cooldown, converge_ticks,
                   converge_cooldown, pre, ret, printed, since_swap>>
    /\ UNCHANGED ai_vars

\* MetaRulesController.update
\* Mutant: the role-swap rule runs before the override is returned
UpdateBody_SwapAlways ==
    /\ LET conv == UpdateConvergeRule(args.pacman, args.ghosts)
           swap == UpdateRoleSwapRule(conv.escape, args.pacman, args.ghosts)
       IN /\ converge_ticks' = conv.ticks
          /\ converge_cooldown' = conv.cooldown
          /\ escape_ticks' = swap.escape
          /\ role_swap_cooldown' = swap.cooldown
          /\ role_map' = swap.roles
          /\ ret' = IF conv.override THEN ConvergeMap ELSE swap.roles
          /\ printed' = conv.out \cup swap.out
    /\ pre' = Counters
    /\ UNCHANGED cfg

\* MetaRulesController.update: the converge rule, then the role-swap rule unless
\* the converge rule returned its override
UpdateBody ==
    /\ LET conv == UpdateConvergeRule(args.pacman, args.ghosts)
           swap == UpdateRoleSwapRule(conv.escape, args.pacman, args.ghosts)
       IN /\ converge_ticks' = conv.ticks
          /\ converge_cooldown' = conv.cooldown
          /\ IF conv.override
             THEN /\ escape_ticks' = conv.escape
                  /\ ret' = ConvergeMap
                  /\ printed' = conv.out
                  /\ UNCHANGED <<role_map, role_swap_cooldown>>
             ELSE /\ escape_ticks' = swap.escape
                  /\ role_swap_cooldown' = swap.cooldown
                  /\ role_map' = swap.roles
                  /\ ret' = swap.roles
                  /\ printed' = conv.out \cup swap.out
    /\ pre' = Counters
    /\ UNCHANGED cfg

\* MetaRulesController.update, seen from outside: the call runs and returns.
Update ==
    /\ pc = "update"
    /\ UpdateBody
    /\ pc' = "idle"
    /\ args' = NoArgs
    /\ UNCHANGED since_swap
    /\ UNCHANGED ai_vars

Next == Call \/ Update

Spec == Init /\ [][Next]_vars

----------------------------------------------------------------------------
(* MetaRulesController within a tick of the game loop: the caller still holds *)
(* the positions it passed when update returns, and counts its calls.         *)

\* The defaults, the escape threshold varied, the swap cooldown varied
TickConfigs ==
    {[BaseConfig EXCEPT !.escape_ticks_threshold = t] : t \in 0..MaxTicks}
    \cup {[BaseConfig EXCEPT !.swap_cooldown_ticks = c] : c \in 0..MaxTicks}

InitTick == MetaInit(TickConfigs) /\ AIInit

\* MetaRulesController.update returning to the game loop
UpdateInTick ==
    /\ pc = "update"
    /\ UpdateBody
    /\ pc' = "returned"
    /\ UNCHANGED <<args, since_swap>>
    /\ UNCHANGED ai_vars

\* The game loop has used the returned mapping; the tick ends.
EndTick ==
    /\ pc = "returned"
    /\ pc' = "idle"
    /\ args' = NoArgs
    /\ since_swap' = IF "Roles have been swapped" \in printed THEN 0
                     ELSE IF since_swap < cfg.swap_cooldown_ticks THEN since_swap + 1
                     ELSE since_swap
    /\ UNCHANGED <<cfg, role_map, escape_ticks, role_swap_cooldown, converge_ticks,
                   converge_cooldown, pre, ret, printed>>
    /\ UNCHANGED ai_vars

NextTick == Call \/ UpdateInTick \/ EndTick

SpecTick == InitTick /\ [][NextTick]_vars

----------------------------------------------------------------------------
(* MetaRulesController under a game loop that never stops calling update, with *)
(* the default proportions of the tick lengths and ghosts kept at a distance.  *)

\* The defaults 60 : 30 : 30 : 30 with 30 ticks scaled to MaxTicks
LiveConfig == [BaseConfig EXCEPT !.escape_ticks_threshold = 2 * MaxTicks]

\* Around the player at (300, 270): no entry, 195 px away, exactly on the 180 px
\* radius in the south-east, north-west and south-west quadrants, or (clyde) on
\* the player.
LivePoints(gid) ==
    CASE gid = "blinky" -> {Absent, Far, <<480, 270>>}
      [] gid = "pinky"  -> {Absent, Far, <<210, 180>>}
      [] gid = "inky"   -> {Absent, Far, <<210, 360>>}
      [] gid = "clyde"  -> {Absent, Far, <<300, 270>>}

LiveMaps ==
    {[gid \in GhostIds |-> q[CHOOSE i \in 1..Len(ghost_ids) : ghost_ids[i] = gid]] :
        q \in LivePoints(ghost_ids[1]) \X LivePoints(ghost_ids[2])
               \X LivePoints(ghost_ids[3]) \X LivePoints(ghost_ids[4])}

InitLive == MetaInit({LiveConfig}) /\ AIInit

\* The game loop calls update(pacman, ghosts) once per tick.
CallLive ==
    /\ pc = "idle"
    /\ \E p \in PacPoints, g \in LiveMaps : args' = [pacman |-> p, ghosts |-> g]
    /\ pc' = "update"
    /\ UNCHANGED <<cfg, role_map, escape_ticks, role_swap_cooldown, converge_ticks,
                   converge_cooldown, pre, ret, printed, since_swap>>
    /\ UNCHANGED ai_vars

NextLive == CallLive \/ Update

\* The game loop runs while the game does: a call that can be made is made, and a
\* call that has been made returns.
SpecLive == InitLive /\ [][NextLive]_vars /\ WF_vars(CallLive) /\ WF_vars(Update)

----------------------------------------------------------------------------
(* GhostAI: the game loop steers the ghost once per tick *)

InitAI == MetaInit({BaseConfig}) /\ AIInit

\* The game loop calls set_ghost_direction for the ghost.
DecideCall ==
    /\ ai_pc = "idle"
    /\ \E name \in Names : call' \in CallsOf(name)
    /\ ai_pc' = "decide"
    /\ UNCHANGED <<ghost_change, target, penalized, last_move>>
    /\ UNCHANGED meta_vars

\* GhostAI.set_ghost_direction
SetGhostDirection ==
    /\ ai_pc = "decide"
    /\ ghost_change' = SetGhostDirectionResult(call, ghost_change)
    /\ LET possible == PossibleMoves(call.free)
       IN /\ target' = IF possible = <<>> THEN <<>>
                        ELSE ComputeTarget(call.name, call.center, call.pacman,
                                           call.pac_change, call.blinky)
          /\ penalized' = {m \in call.free :
                              RevPen(m, Reverse(ghost_change), Len(possible)) # 0}
    /\ ai_pc' = "done"
    /\ UNCHANGED <<call, last_move>>
    /\ UNCHANGED meta_vars

\* The call returns to the game loop, which moves the ghost by its change_x, change_y.
DecideReturn ==
    /\ ai_pc = "done"
    /\ ai_pc' = "idle"
    /\ call' = NoCall
    /\ target' = <<>>
    /\ penalized' = {}
    /\ last_move' = IF ghost_change # <<0, 0>> THEN ghost_change ELSE last_move
    /\ UNCHANGED ghost_change
    /\ UNCHANGED meta_vars

NextAI == DecideCall \/ SetGhostDirection \/ DecideReturn

SpecAI == InitAI /\ [][NextAI]_vars

----------------------------------------------------------------------------
(* Properties of MetaRulesController *)

IdentityRoles == [gid \in GhostIds |-> gid]

IsPermutation(m) ==
    /\ DOMAIN m = GhostIds
    /\ {m[gid] : gid \in GhostIds} = GhostIds

\* An update call has returned.
Returned == ret # NoReturn

Swapped == "Roles have been swapped" \in printed

\* new gives each ghost the role old gave the ghost s places earlier (cyclically)
RotatedBy(old, new, s) ==
    \A i \in 0..3 : new[ghost_ids[i + 1]] = old[ghost_ids[((i - s) % 4) + 1]]

\* C1: an update call that begins with the converge hold counter > 0 returns the
\* all-"converge" mapping and leaves the escape-tick counter at 0, whatever the
\* other counters and the positions.
C1_ConvergePriority ==
    (Returned /\ pre.hold > 0) => (ret = ConvergeMap /\ escape_ticks = 0)

\* C1 witness: a call found the hold counter and the swap cooldown both positive
\* and returned the override.
C1_Witness ==
    /\ pre.hold > 0
    /\ pre.swap_cooldown > 0
    /\ ret = ConvergeMap
    /\ escape_ticks = 0

\* C2 as stated: an update call that begins with the escape-tick counter equal to
\* escape_ticks_threshold and the swap cooldown at 0 rotates the mapping once by
\* rotation_step and returns with escape-ticks 0 and swap cooldown swap_cooldown_ticks.
C2_Original ==
    (Returned /\ pre.escape = cfg.escape_ticks_threshold /\ pre.swap_cooldown = 0)
        => /\ Swapped
           /\ RotatedBy(pre.roles, role_map, cfg.rotation_step)
           /\ escape_ticks = 0
           /\ role_swap_cooldown = cfg.swap_cooldown_ticks

\* C2 amended: the same, for an update call in which the converge rule does not
\* return its override.
C2_RoleSwapTrigger ==
    (/\ Returned
     /\ pre.escape = cfg.escape_ticks_threshold
     /\ pre.swap_cooldown = 0
     /\ ret # ConvergeMap)
        => /\ Swapped
           /\ RotatedBy(pre.roles, role_map, cfg.rotation_step)
           /\ escape_ticks = 0
           /\ role_swap_cooldown = cfg.swap_cooldown_ticks

\* C2 witness: such a call, not overridden, rotated the roles and restarted a
\* cooldown of positive length.
C2_Witness ==
    /\ Returned
    /\ pre.escape = cfg.escape_ticks_threshold
    /\ pre.swap_cooldown = 0
    /\ ret # ConvergeMap
    /\ Swapped
    /\ role_map # pre.roles
    /\ role_swap_cooldown = cfg.swap_cooldown_ticks
    /\ cfg.swap_cooldown_ticks > 0

\* C3 as stated: an update call that begins with converge hold = 0 and converge
\* cooldown > 0 (cooldown = 1 included) decrements the cooldown, starts no hold,
\* returns no override and returns the stored role mapping.
C3_CooldownSuppressesDetection ==
    (Returned /\ pre.hold = 0 /\ pre.cooldown > 0)
        => /\ converge_cooldown = pre.cooldown - 1
           /\ converge_ticks = 0
           /\ ret # ConvergeMap
           /\ ret = role_map

\* C4: role_map is always a permutation of the four strategy roles over the four
\* identities, and whatever update returned is that permutation or the
\* all-"converge" mapping.
C4_RoleMapPermutation ==
    /\ IsPermutation(role_map)
    /\ Returned => (ret = ConvergeMap \/ ret = role_map)

\* C4 witness: update returned a rotated permutation.
C4_Witness ==
    /\ Returned
    /\ ret = role_map
    /\ role_map # IdentityRoles
    /\ cfg.rotation_step > 1

\* C5: a rotating call gives each identity the role held by the identity
\* rotation_step (mod 4) places earlier in blinky, pinky, inky, clyde; step 0
\* changes nothing; [A,B,C,D] rotated by 1 is [D,A,B,C]; four step-1 rotations
\* restore the mapping.
C5_RotationCorrect ==
    /\ Swapped =>
        /\ RotatedBy(pre.roles, role_map, cfg.rotation_step % 4)
        /\ cfg.rotation_step % 4 = 0 => role_map = pre.roles
        /\ (cfg.rotation_step = 1 /\ pre.roles = IdentityRoles) =>
                role_map = [blinky |-> "clyde", pinky |-> "blinky",
                            inky |-> "pinky", clyde |-> "inky"]
    /\ SwapRoles(SwapRoles(SwapRoles(SwapRoles(role_map, 1), 1), 1), 1) = role_map
    /\ SwapRoles(SwapRoles(SwapRoles(role_map, 1), 1), 1) # role_map

\* C5 witness: a step-1 rotation of an already rotated mapping.
C5_Witness ==
    /\ Swapped
    /\ cfg.rotation_step = 1
    /\ pre.roles = [blinky |-> "clyde", pinky |-> "blinky",
                    inky |-> "pinky", clyde |-> "inky"]
    /\ role_map = [blinky |-> "inky", pinky |-> "clyde",
                   inky |-> "blinky", clyde |-> "pinky"]

\* The tracked ghosts within Manhattan distance radius_tiles * tile of the player
GhostsInRadius(a) ==
    {gid \in GhostIds :
        /\ a.ghosts[gid] # Absent
        /\ Manhattan(a.ghosts[gid], a.pacman) <= RadiusTiles * Tile}

\* The number of distinct quadrants they occupy (east: dx >= 0, south: dy >= 0)
OccupiedQuadrants(a) ==
    Cardinality({<<a.ghosts[gid][1] >= a.pacman[1], a.ghosts[gid][2] >= a.pacman[2]>> :
                    gid \in GhostsInRadius(a)})

\* The distances from the player to the tracked ghosts
GhostDistances(a) ==
    {Manhattan(a.ghosts[gid], a.pacman) : gid \in {g \in GhostIds : a.ghosts[g] # Absent}}

\* C6: in an update call that reaches detection (hold 0, converge cooldown 0 once
\* decremented), the call sets the hold counter to hold_ticks, zeroes escape-ticks
\* and returns the override iff the in-radius ghosts occupy at least
\* required_sectors distinct quadrants; otherwise it returns the stored mapping
\* after the role-swap rule has run.
C6_DetectionTrigger ==
    [][(pc = "update" /\ converge_ticks = 0 /\ converge_cooldown <= 1) =>
          LET enough == OccupiedQuadrants(args) >= cfg.required_sectors
              safe == \A d \in GhostDistances(args) : d >= SafeDistanceTiles * Tile
          IN /\ enough <=> ret' = ConvergeMap
             /\ enough => /\ converge_ticks' = cfg.hold_ticks
                          /\ escape_ticks' = 0
                          /\ role_map' = role_map
                          /\ role_swap_cooldown' = role_swap_cooldown
             /\ ~enough => /\ converge_ticks' = 0
                           /\ ret' = role_map'
                           /\ \/ /\ "Roles have been swapped" \in printed'
                                 /\ escape_ticks' = 0
                              \/ /\ "Roles have been swapped" \notin printed'
                                 /\ role_swap_cooldown' = Decrement(role_swap_cooldown)
                                 /\ escape_ticks' = IF safe THEN escape_ticks + 1 ELSE 0
      ]_vars

\* C6 witness: detection triggered in a call that found no hold and no cooldown.
C6_Witness ==
    /\ Returned
    /\ pre.hold = 0
    /\ pre.cooldown = 0
    /\ "Converge is active" \notin printed
    /\ ret = ConvergeMap
    /\ cfg.hold_ticks > 0
    /\ converge_ticks = cfg.hold_ticks
    /\ cfg.required_sectors = DefaultRequiredSectors

\* C7: the four counters are never negative (before and after every update call).
C7_CountersNonNegative ==
    /\ escape_ticks >= 0 /\ role_swap_cooldown >= 0
    /\ converge_ticks >= 0 /\ converge_cooldown >= 0
    /\ pre.escape >= 0 /\ pre.swap_cooldown >= 0
    /\ pre.hold >= 0 /\ pre.cooldown >= 0
    /\ role_swap_cooldown < pre.swap_cooldown => pre.swap_cooldown > 0
    /\ converge_cooldown < pre.cooldown => pre.cooldown > 0
    /\ converge_ticks < pre.hold => pre.hold > 0
    /\ escape_ticks < pre.escape => pre.escape > 0

\* C7 witness: a call found the converge cooldown at 1 and the swap cooldown at 0
\* and left both at 0.
C7_Witness ==
    /\ Returned
    /\ pre.cooldown = 1 /\ converge_cooldown = 0
    /\ pre.swap_cooldown = 0 /\ role_swap_cooldown = 0
    /\ ret # ConvergeMap

----------------------------------------------------------------------------
(* Properties of GhostAI.set_ghost_direction *)

Decided == ai_pc = "done"

\* The displacement opposite to the one the ghost had when called
Opposite == <<-call.change[1], -call.change[2]>>

\* Manhattan distance to the target from the position move m leads to
DistanceAfter(m) == Manhattan(<<call.center[1] + m[1], call.center[2] + m[2]>>, target)

\* C8: the displacement chosen is one of the free candidates whenever there is one,
\* and is (0,0) exactly when none is free, whatever the ghost did before.
C8_ChoosesFreeMove ==
    Decided =>
        /\ call.free # {} => ghost_change \in call.free
        /\ call.free = {} => ghost_change = <<0, 0>>
        /\ ghost_change = <<0, 0>> <=> call.free = {}

\* C8 witness: a moving ghost with one candidate blocked, another ghost beside it
\* and a nonzero jitter weight chose one of its three free candidates.
C8_Witness ==
    /\ Decided
    /\ Cardinality(call.free) = 3
    /\ call.change # <<0, 0>>
    /\ call.others # <<>>
    /\ call.name = "inky"
    /\ ghost_change \in call.free

\* C9: when the reversal of the ghost's direction is the only free candidate it is
\* chosen, and no candidate is penalized unless more than one is free.
C9_ReversalWhenForced ==
    Decided =>
        /\ (call.change # <<0, 0>> /\ call.free = {Opposite}) =>
                (ghost_change = Opposite /\ penalized = {})
        /\ penalized # {} => Cardinality(call.free) > 1

\* C9 witness: a ghost that moved right and can only go left goes left.
C9_Witness ==
    /\ Decided
    /\ call.change = <<Step, 0>>
    /\ call.free = {<<-Step, 0>>}
    /\ ghost_change = <<-Step, 0>>

OppositeOfLast == <<-last_move[1], -last_move[2]>>

\* C11 as stated: the reversal penalty follows the last nonzero displacement: a
\* ghost that moved in direction D and then stood still for want of a free
\* candidate is, with at least two free candidates including -D, still penalized
\* on -D.
C11_FacingSurvivesIdle ==
    (/\ Decided
     /\ last_move # Absent
     /\ call.change = <<0, 0>>
     /\ Cardinality(call.free) >= 2
     /\ OppositeOfLast \in call.free)
        => OppositeOfLast \in penalized

\* Manhattan distance between the ghost and the player at the call
DistanceToPlayer == Manhattan(call.center, call.pacman)

\* C12: the herder's target is the player's position when the ghost is strictly
\* more than 6.0 tiles (180 px) from the player and the scatter corner otherwise,
\* so at exactly 180 px it is the corner; the choice depends on the arguments of
\* the call alone, whatever the ghost did in earlier calls.
C12_HerderGate ==
    (Decided /\ call.name = "clyde" /\ call.free # {}) =>
        /\ DistanceToPlayer > 180 => target = call.pacman
        /\ DistanceToPlayer <= 180 => target = <<30, 576>>

\* C12 witness: a herder that has moved before is called at exactly 180 px from the
\* player and targets the corner.
C12_Witness ==
    /\ Decided
    /\ call.name = "clyde"
    /\ call.free # {}
    /\ last_move # Absent
    /\ DistanceToPlayer = 180
    /\ target = <<30, 576>>

\* C13 as stated: a ghost holding the herder role within 6.0 tiles of the player
\* retreats to the scatter corner of its own identity, for each of the four
\* identities.
C13_OwnScatterCorner ==
    (Decided /\ call.name = "clyde" /\ call.free # {} /\ DistanceToPlayer <= 180)
        => target = ScatterTargets[call.identity]

\* The sign of a component of the player's displacement
Sign(x) == IF x > 0 THEN 1 ELSE IF x < 0 THEN -1 ELSE 0

\* The point two tiles ahead of the player along its facing
AheadPoint ==
    <<call.pacman[1] + 60 * Sign(call.pac_change[1]),
      call.pacman[2] + 60 * Sign(call.pac_change[2])>>

\* C14: the intercept target is the ahead-point when no reference ghost is given,
\* and otherwise the reflection 2 * ahead - reference of the reference ghost's
\* position through the ahead-point; with ahead-point (160,100) and the reference
\* at (100,100) it is (220,100).
C14_InterceptTarget ==
    (Decided /\ call.name = "inky" /\ call.free # {}) =>
        /\ call.blinky = Absent => target = AheadPoint
        /\ call.blinky # Absent =>
                target = <<2 * AheadPoint[1] - call.blinky[1],
                           2 * AheadPoint[2] - call.blinky[2]>>
        /\ (AheadPoint = <<160, 100>> /\ call.blinky = <<100, 100>>) =>
                target = <<220, 100>>

\* C14 witness: the player at (100,100) moving right, the reference ghost at
\* (100,100): the target is (220,100).
C14_Witness ==
    /\ Decided
    /\ call.name = "inky"
    /\ call.free # {}
    /\ call.pacman = <<100, 100>>
    /\ call.pac_change = <<30, 0>>
    /\ call.blinky = <<100, 100>>
    /\ target = <<220, 100>>

----------------------------------------------------------------------------
(* Properties of MetaRulesController.update seen with its arguments *)

AfterUpdate == pc = "returned"

\* The identities with an entry in the position map
Tracked(a) == {gid \in GhostIds : a.ghosts[gid] # Absent}

\* The least element of a nonempty set of distances
Least(ds) == CHOOSE d \in ds : \A e \in ds : d <= e

\* C15: an identity without an entry in the position map is skipped without error:
\* the sector count and the minimum distance are those of the identities present
\* (no minimum, i.e. infinity, for an empty map), the call's effects follow from
\* them, and the call still returns a role for each of the four identities.
C15_AbsentSkipped ==
    AfterUpdate =>
        /\ DOMAIN ret = GhostIds
        /\ \A gid \in GhostIds : ret[gid] \in GhostIds \cup {"converge"}
        /\ Cardinality(Sectors(args.pacman, args.ghosts)) = OccupiedQuadrants(args)
        /\ MinDistToPacman(args.pacman, args.ghosts) =
                IF Tracked(args) = {} THEN Inf ELSE Least(GhostDistances(args))
        /\ (pre.hold = 0 /\ pre.cooldown <= 1) =>
                (ret = ConvergeMap <=> OccupiedQuadrants(args) >= cfg.required_sectors)
        /\ (ret # ConvergeMap /\ ~Swapped) =>
                escape_ticks = IF \A d \in GhostDistances(args) : d >= 180
                               THEN pre.escape + 1 ELSE 0

\* C15 witness: blinky has no entry and the three other ghosts stand within the
\* radius in three quadrants; the call returned the override for all four.
C15_Witness ==
    /\ AfterUpdate
    /\ Tracked(args) = GhostIds \ {"blinky"}
    /\ OccupiedQuadrants(args) = 3
    /\ pre.hold = 0
    /\ ret = ConvergeMap

----------------------------------------------------------------------------
(* Properties of MetaRulesController over a run of update calls *)

\* Every ghost passed to the call in progress is at least the safe distance from
\* the player, and there is at least one
PlayerFarFromAll ==
    pc = "update" =>
        /\ Tracked(args) # {}
        /\ \A d \in GhostDistances(args) : d >= 180

\* The ghosts passed to the call in progress within the radius occupy fewer than
\* required_sectors quadrants
NotEncircled == pc = "update" => OccupiedQuadrants(args) < cfg.required_sectors

----------------------------------------------------------------------------
(* The choice among equal scores in GhostAI._choose_best_move *)

\* The fixed enumeration order of the candidates
LeftRightUpDown == <<<<-15, 0>>, <<15, 0>>, <<0, -15>>, <<0, 15>>>>

\* The place of move m in that order
Rank(m) == CHOOSE i \in 1..4 : LeftRightUpDown[i] = m

\* The place of free move m among the free moves, which is the place of its
\* jitter draw
PlaceAmongFree(m) == Cardinality({n \in call.free : Rank(n) <= Rank(m)})

\* The score the call gave free move m
ScoreOf(m) ==
    Score(Weights(call.name), DistanceAfter(m),
          IF m \in penalized THEN 1000 ELSE 0,
          SepPen(<<call.center[1] + m[1], call.center[2] + m[2]>>, call.others, 1),
          call.jitter[PlaceAmongFree(m)])

\* Fraction a is strictly below fraction b
Below(a, b) == a.num * b.den < b.num * a.den

\* C17: the move chosen has the minimum score among the free candidates, and among
\* those with the minimum score it is the first in the order left, right, up, down:
\* every free candidate before it has a strictly higher score.
C17_FirstOfTheBest ==
    (Decided /\ call.free # {}) =>
        /\ \A m \in call.free : ~Below(ScoreOf(m), ScoreOf(ghost_change))
        /\ \A m \in call.free :
              Rank(m) < Rank(ghost_change) => Below(ScoreOf(ghost_change), ScoreOf(m))

\* C17 witness: the ghost stands on the player and has not moved; right, up and
\* down are free and score the same, and right is chosen.
C17_Witness ==
    /\ Decided
    /\ call.name = "blinky"
    /\ call.change = <<0, 0>>
    /\ call.others = <<>>
    /\ call.pacman = call.center
    /\ call.free = {<<15, 0>>, <<0, -15>>, <<0, 15>>}
    /\ \A m \in call.free : ~Below(ScoreOf(m), ScoreOf(<<0, 15>>))
    /\ ghost_change = <<15, 0>>

----------------------------------------------------------------------------
(* The two meta-rules over consecutive update calls *)

\* C18: an update call that returns the converge override rotates nothing and
\* leaves the stored role map and the swap cooldown as it found them, and counts
\* no escape tick; a rotation, a change of the swap cooldown or a counted escape
\* tick is seen only after a call that did not return the override.
C18_OverrideSkipsRoleSwap ==
    Returned =>
        /\ ret = ConvergeMap =>
              /\ ~Swapped
              /\ role_map = pre.roles
              /\ role_swap_cooldown = pre.swap_cooldown
              /\ escape_ticks = 0
        /\ (\/ Swapped
            \/ role_map # pre.roles
            \/ role_swap_cooldown # pre.swap_cooldown
            \/ escape_ticks > 0) => ret = role_map

\* C18 witness: after an earlier rotation, a call that found the swap cooldown
\* running and escape ticks counted returned the override and left the rotated
\* role map and the cooldown alone.
C18_Witness ==
    /\ Returned
    /\ ret = ConvergeMap
    /\ pre.roles # IdentityRoles
    /\ pre.swap_cooldown > 0
    /\ pre.escape > 0
    /\ role_map = pre.roles
    /\ role_swap_cooldown = pre.swap_cooldown

\* C19: a rotating update call comes at least swap_cooldown_ticks calls after the
\* rotating call before it: none of the swap_cooldown_ticks - 1 calls that follow
\* a rotating call rotates.
C19_RotationsApart ==
    (AfterUpdate /\ Swapped) => since_swap + 1 >= cfg.swap_cooldown_ticks

\* C19 witness: a rotation exactly swap_cooldown_ticks calls after the one before.
C19_Witness ==
    /\ AfterUpdate
    /\ Swapped
    /\ cfg.swap_cooldown_ticks > 1
    /\ since_swap + 1 = cfg.swap_cooldown_ticks

\* C20 as stated, call by call: with hold_ticks >= 1, the call in which detection
\* triggers starts a hold of hold_ticks calls; each call of the hold returns the
\* override and shortens the hold by one; the last of them sets the converge
\* cooldown to cooldown_ticks; and with cooldown_ticks >= 1 the call right after
\* the last of them does not return the override.
C20_HoldLength ==
    (Returned /\ cfg.hold_ticks >= 1) =>
        /\ (pre.hold = 0 /\ ret = ConvergeMap) => converge_ticks = cfg.hold_ticks
        /\ pre.hold > 0 => (ret = ConvergeMap /\ converge_ticks = pre.hold - 1)
        /\ pre.hold = 1 => converge_cooldown = cfg.cooldown_ticks
        /\ (/\ cfg.cooldown_ticks >= 1
            /\ pre.hold = 0
            /\ pre.cooldown = cfg.cooldown_ticks) => ret # ConvergeMap

====
